---- MODULE Spec2Model ----
(***************************************************************************)
(* Anyfd (src/src/lib.rs): a raw file descriptor wrapped in a readiness    *)
(* registration and driven as AsyncRead / AsyncWrite.                      *)
(*                                                                         *)
(* The model has three parts:                                              *)
(*   - the descriptor as the kernel sees it (the peer's byte stream, the   *)
(*     send buffer, a pending error, the half-close flag);                 *)
(*   - the readiness registration (one readiness flag, one waker and one   *)
(*     guard per direction, fed by the reactor);                           *)
(*   - the adapter: poll_read, poll_write, poll_flush, poll_shutdown, one  *)
(*     reader task and one writer task, each stepping through the loop of  *)
(*     its poll function one observable step at a time.                    *)
(***************************************************************************)
EXTENDS Integers, Sequences, FiniteSets, TLC

\* ---------------------------------------------------------------- bounds
\* Bytes the peer writes towards the descriptor over a whole run.
MaxSrc == 2
\* Largest remaining capacity of a read buffer.
MaxCap == 2
\* Bytes a read buffer already holds when a read call begins.
PreFilled == 1
\* Bytes the caller wants to send over a whole run; one write call is
\* handed at most as many.
MaxOut == 2
\* Capacity of the kernel's send buffer.
SndCap == 1
\* Calls abandoned while suspended over a whole run.
MaxCancels == 1
\* Upsets over a whole run: readiness notifications the reactor delivers
\* with no kernel event behind them, and errors the kernel raises on the
\* descriptor.
MaxUpsets == 2
\* set_nonblocking calls made on one descriptor.
MaxCalls == 2

\* ------------------------------------------------------------- constants
\* The errno of a non-blocking syscall that cannot proceed; io::Error maps
\* it to ErrorKind::WouldBlock.
EAGAIN == "EAGAIN"
\* Errors the kernel may report on a descriptor.
Errnos == {"ECONNRESET"}
\* The errno of a write on a half-closed descriptor.
EPIPE == "EPIPE"
\* The errno of a shutdown the descriptor does not support.
ENOTCONN == "ENOTCONN"
\* The errno of a registration the reactor refuses.
EPERM == "EPERM"
\* The errno of a deregistration of a descriptor the reactor does not hold.
EBADF == "EBADF"
\* The error of a readiness wait whose reactor has gone away.
GONE == "GONE"
NoErr == "none"

Min(a, b) == IF a < b THEN a ELSE b

\* The i-th byte of the stream the peer writes, and of the stream the
\* caller sends: all bytes differ, so a lost, repeated or misplaced byte
\* shows.
SrcByte(i) == i
OutByte(i) == 100 + i
SrcSlice(from, n) == [i \in 1..n |-> SrcByte(from + i)]
OutSlice(from, n) == [i \in 1..n |-> OutByte(from + i)]

VARIABLES
  \* --- which tasks use the adapter in this run
  side,        \* "read": a reader task; "write": a writer task, with flush
               \* and shutdown; "halfclose": a reader task and a task that
               \* flushes and shuts down
  \* --- the descriptor
  written,     \* bytes the peer has written so far
  consumed,    \* bytes read syscalls have taken out of the kernel
  peerClosed,  \* the peer closed its write side: end-of-stream follows
  fdErr,       \* error pending on the descriptor, or NoErr
  accepted,    \* bytes write syscalls have handed to the kernel, in order
  drained,     \* how many of them the peer has taken
  wrShut,      \* the write direction is shut down
  rdShut,      \* the read direction is shut down
  rdEvt,       \* the kernel holds an undelivered read-readiness event
  wrEvt,       \* the kernel holds an undelivered write-readiness event
  \* --- the readiness registration
  rdReady,     \* the read readiness flag
  wrReady,     \* the write readiness flag
  rdWaker,     \* a reader task is registered to be woken
  wrWaker,     \* a writer task is registered to be woken
  rdFresh,     \* no read notification since the reader's guard was issued
  wrFresh,     \* no write notification since the writer's guard was issued
  rdRenewed,   \* the reader's guard rests on a notification newer than
               \* the one its previous guard rested on
  wrRenewed,   \* the same for the writer's guard
  upsets,      \* spurious notifications and kernel errors so far
  rtDown,      \* the reactor has shut down
  \* --- the read call in progress
  pcR,         \* idle, wait, attempt, clear, pending, done
  rbufFilled,  \* the filled part of the ReadBuf
  rbufCap,     \* the ReadBuf's capacity
  rres,        \* what the call returned
  rlast,       \* the last raw read of this call: [ret, errno]
  rWB,         \* would-block results of this call
  rIter,       \* passes of this call that got past the readiness wait
  got,         \* every byte successful reads have returned, in order
  \* --- the write call in progress
  pcW,
  wbuf,        \* the source buffer of the call
  wres,
  wlast,
  wWB,
  wIter,
  reported,    \* every prefix successful writes have reported, in order
  \* --- flush and shutdown
  ctl,         \* the last flush or shutdown call: the operation, its
               \* syscall's return and errno, and what the call returned
  \* --- the descriptor's mode and the adapter's life
  oflags,      \* the descriptor's file status flags, as F_GETFL reads them
  snb,         \* the set_nonblocking calls so far and the last one's flags
               \* before, F_SETFL argument and result
  life,        \* none, live, failed, dropped: the adapter around the
               \* descriptor
  watched,     \* the descriptor is in the reactor's watched set
  regErr,      \* the error the last registration or deregistration gave
  cancels      \* calls abandoned while they were suspended

kern == <<written, consumed, peerClosed, fdErr, accepted, drained,
          wrShut, rdShut, rdEvt, wrEvt>>
regR == <<rdReady, rdWaker, rdFresh, rdRenewed>>
regW == <<wrReady, wrWaker, wrFresh, wrRenewed>>
reader == <<pcR, rbufFilled, rbufCap, rres, rlast, rWB, rIter, got>>
writer == <<pcW, wbuf, wres, wlast, wWB, wIter, reported>>
\* What no read, write, flush or shutdown call and no event of the
\* descriptor changes.
fixed == <<side, oflags, snb, life, watched, regErr, cancels>>
vars == <<fixed, kern, regR, regW, upsets, rtDown, reader, writer, ctl>>

\* The product of a reader's and a writer's states is beyond what TLC
\* explores, so a run exercises the tasks of one side. The run's side
\* fixes which part of the environment moves: the part that the side's
\* tasks can observe.
Sides == {"read", "write", "halfclose"}
\* A run of both tasks at once, "duplex", leaves out flush, shutdown and
\* every upset.
Reads == side \in {"read", "halfclose", "duplex"}
Writes == side \in {"write", "duplex"}
Controls == side \in {"write", "halfclose"}
Faulty == side \in {"read", "write"}

\* Access mode O_RDWR of the file status flags.
O_RDWR == 2
\* libc::O_NONBLOCK
O_NONBLOCK == 2048
\* No set_nonblocking call made.
NoCall == [n |-> 0, before |-> 0, arg |-> -1, res |-> [kind |-> "none",
           n |-> 0, errno |-> "none"]]

NoSys == [ret |-> 0, errno |-> "unset"]
NoRes == [kind |-> "none", n |-> 0, errno |-> NoErr]
OkRes(n) == [kind |-> "ok", n |-> n, errno |-> NoErr]
ErrRes(e) == [kind |-> "err", n |-> 0, errno |-> e]

\* The descriptor as the caller is told to hand it over: opened for
\* reading and writing, set non-blocking, wrapped by anyfd and registered.
Adapted ==
  /\ snb = NoCall
  /\ life = "live" /\ watched = TRUE /\ regErr = NoErr
  /\ cancels = 0

Wrapped == oflags = O_RDWR + O_NONBLOCK /\ Adapted

\* No call made yet, nothing in flight.
Fresh ==
  /\ written = 0 /\ consumed = 0 /\ peerClosed = FALSE
  /\ fdErr = NoErr
  /\ accepted = <<>> /\ drained = 0 /\ wrShut = FALSE /\ rdShut = FALSE
  /\ rdEvt = FALSE /\ wrEvt = TRUE
  /\ rdReady = FALSE /\ wrReady = FALSE
  /\ rdWaker = FALSE /\ wrWaker = FALSE
  /\ rdFresh = FALSE /\ wrFresh = FALSE
  /\ rdRenewed = FALSE /\ wrRenewed = FALSE
  /\ upsets = 0
  /\ rtDown = FALSE
  /\ pcR = "idle" /\ rbufFilled = <<>> /\ rbufCap = 0
  /\ rres = NoRes /\ rlast = NoSys /\ rWB = 0 /\ rIter = 0 /\ got = <<>>
  /\ pcW = "idle" /\ wbuf = <<>>
  /\ wres = NoRes /\ wlast = NoSys /\ wWB = 0 /\ wIter = 0 /\ reported = <<>>
  /\ ctl = [op |-> "none", ret |-> 0, errno |-> NoErr, res |-> NoRes]

Init == side \in Sides /\ Wrapped /\ Fresh

\* ------------------------------------------------- the adapter's lifetime
\* An Anyfd exists: its poll functions take self, so none is called before
\* anyfd returned one or after it is dropped.
Live == life = "live"

\* AsyncFd::new(fd): the descriptor joins the reactor's watched set, or the
\* registration fails.
AsyncFd_new ==
  {[ok |-> TRUE, errno |-> NoErr], [ok |-> FALSE, errno |-> EPERM]}

\* A constructor that returns an adapter whatever the registration gave.
AnyfdResult_IgnoresError(o) == [life |-> "live", err |-> NoErr]

\* Ok(Anyfd { afd: AsyncFd::new(fd)? })
AnyfdResult(o) ==
  IF o.ok THEN [life |-> "live", err |-> NoErr]
  ELSE [life |-> "failed", err |-> o.errno]

anyfd ==
  /\ life = "none"
  /\ \E o \in AsyncFd_new :
       /\ watched' = o.ok
       /\ life' = AnyfdResult(o).life
       /\ regErr' = AnyfdResult(o).err
  /\ UNCHANGED <<side, oflags, snb, cancels, kern, regR, regW, upsets,
                 rtDown, reader, writer, ctl>>

\* The reactor's deregister: the descriptor leaves the watched set, also
\* where the OS reports an error.
Deregister ==
  {[watched |-> FALSE, errno |-> NoErr], [watched |-> FALSE, errno |-> EBADF]}

\* The Anyfd is dropped, and its AsyncFd with it: the descriptor is
\* deregistered, an error of the deregistration is swallowed. No call
\* borrows the adapter at that moment.
DropAnyfd ==
  /\ Live
  /\ pcR \in {"idle", "done"} /\ pcW \in {"idle", "done"}
  /\ life' = "dropped"
  /\ \E o \in Deregister : watched' = o.watched
  /\ regErr' = NoErr
  /\ UNCHANGED <<side, oflags, snb, cancels, kern, regR, regW, upsets,
                 rtDown, reader, writer, ctl>>

\* A deregistration of a descriptor already deregistered.
DeregisterAgain ==
  /\ life = "dropped"
  /\ \E o \in Deregister : watched' = o.watched
  /\ regErr' = NoErr
  /\ UNCHANGED <<side, oflags, snb, life, cancels, kern, regR, regW,
                 upsets, rtDown, reader, writer, ctl>>

\* ------------------------------------------------ the peer and the kernel
\* The peer writes one more byte of its stream: the kernel raises a read
\* event.
PeerWrite ==
  /\ Reads
  /\ written < MaxSrc /\ ~peerClosed
  /\ written' = written + 1
  /\ rdEvt' = TRUE
  /\ UNCHANGED <<consumed, peerClosed, fdErr, accepted, drained, wrShut,
                 rdShut, wrEvt, regR, regW, upsets, fixed, rtDown, reader,
                 writer, ctl>>

\* The peer closes its write side: end-of-stream once the data is read.
PeerClose ==
  /\ Reads
  /\ ~peerClosed
  /\ peerClosed' = TRUE
  /\ rdEvt' = TRUE
  /\ UNCHANGED <<written, consumed, fdErr, accepted, drained, wrShut,
                 rdShut, wrEvt, regR, regW, upsets, fixed, rtDown, reader,
                 writer, ctl>>

\* The peer takes one byte out of the send buffer; a full buffer becoming
\* writable raises a write event.
PeerDrain ==
  /\ Writes
  /\ drained < Len(accepted)
  /\ drained' = drained + 1
  /\ wrEvt' = (wrEvt \/ Len(accepted) - drained = SndCap)
  /\ UNCHANGED <<written, consumed, peerClosed, fdErr, accepted, wrShut,
                 rdShut, rdEvt, regR, regW, upsets, fixed, rtDown, reader,
                 writer, ctl>>

\* The kernel records an error on the descriptor; the next read or write
\* syscall reports it and clears it. Both directions get an event.
OsFault ==
  /\ Faulty
  /\ upsets < MaxUpsets /\ fdErr = NoErr
  /\ \E e \in Errnos : fdErr' = e
  /\ upsets' = upsets + 1
  /\ rdEvt' = TRUE /\ wrEvt' = TRUE
  /\ UNCHANGED <<written, consumed, peerClosed, accepted, drained, wrShut,
                 rdShut, regR, regW, fixed, rtDown, reader, writer, ctl>>

\* ------------------------------------------------------------ the reactor
\* A task parked on a waker becomes runnable when the waker fires: the
\* scheduler polls it again, from the top of its poll function.
Woken(pc, waker) == IF waker /\ pc = "pending" THEN "wait" ELSE pc

\* The reactor marks the descriptor readable: the flag is set, any guard
\* issued before is no longer the latest notification, the waker fires.
MarkReadable ==
  /\ rdReady' = TRUE
  /\ rdFresh' = FALSE
  /\ rdWaker' = FALSE
  /\ pcR' = Woken(pcR, rdWaker)
  /\ UNCHANGED <<rdRenewed, rbufFilled, rbufCap, rres, rlast, rWB, rIter,
                 got>>

MarkWritable ==
  /\ wrReady' = TRUE
  /\ wrFresh' = FALSE
  /\ wrWaker' = FALSE
  /\ pcW' = Woken(pcW, wrWaker)
  /\ UNCHANGED <<wrRenewed, wbuf, wres, wlast, wWB, wIter, reported>>

ReactorReadable ==
  /\ Reads /\ watched
  /\ ~rtDown /\ rdEvt
  /\ rdEvt' = FALSE
  /\ MarkReadable
  /\ UNCHANGED <<written, consumed, peerClosed, fdErr, accepted, drained,
                 wrShut, rdShut, wrEvt, regW, upsets, fixed, rtDown, writer,
                 ctl>>

ReactorWritable ==
  /\ Writes /\ watched
  /\ ~rtDown /\ wrEvt
  /\ wrEvt' = FALSE
  /\ MarkWritable
  /\ UNCHANGED <<written, consumed, peerClosed, fdErr, accepted, drained,
                 wrShut, rdShut, rdEvt, regR, upsets, fixed, rtDown, reader,
                 ctl>>

\* A notification with no kernel event behind it.
ReactorSpuriousReadable ==
  /\ side = "read" /\ watched
  /\ ~rtDown /\ upsets < MaxUpsets
  /\ upsets' = upsets + 1
  /\ MarkReadable
  /\ UNCHANGED <<kern, regW, fixed, rtDown, writer, ctl>>

ReactorSpuriousWritable ==
  /\ Writes /\ watched
  /\ ~rtDown /\ upsets < MaxUpsets
  /\ upsets' = upsets + 1
  /\ MarkWritable
  /\ UNCHANGED <<kern, regR, fixed, rtDown, reader, ctl>>

\* The reactor goes away: every parked task is woken and every later
\* readiness wait fails.
ReactorShutdown ==
  /\ Faulty
  /\ ~rtDown
  /\ rtDown' = TRUE
  /\ rdWaker' = FALSE /\ wrWaker' = FALSE
  /\ pcR' = Woken(pcR, rdWaker)
  /\ pcW' = Woken(pcW, wrWaker)
  /\ UNCHANGED <<fixed, kern, rdReady, rdFresh, rdRenewed, wrReady, wrFresh,
                 wrRenewed, upsets, rbufFilled, rbufCap, rres, rlast, rWB,
                 rIter, got, wbuf, wres, wlast, wWB, wIter, reported, ctl>>

\* What the readiness wait of a direction answers: an error once the
\* reactor is gone, a guard while the flag is set, otherwise it parks the
\* task.
WaitOutcome(ready) ==
  IF rtDown THEN "gone" ELSE IF ready THEN "ready" ELSE "pending"

\* The guard's clear_ready on a would-block: the flag is cleared unless a
\* notification came after the guard was issued.
ClearReady(ready, fresh) == IF fresh THEN FALSE ELSE ready

\* try_io: a WouldBlock error is taken out of the closure's result.
TryIo(res) ==
  IF res.kind = "err" /\ res.errno = EAGAIN THEN "wouldblock" ELSE "result"

\* --------------------------------------------------------------- poll_read
\* libc::read(fd, unfilled, len): the answers the kernel can give.
libc_read(len) ==
  IF fdErr # NoErr THEN {[ret |-> -1, errno |-> fdErr]}
  ELSE IF len = 0 \/ rdShut THEN {[ret |-> 0, errno |-> NoErr]}
  ELSE IF written > consumed
    THEN {[ret |-> n, errno |-> NoErr] : n \in 1..Min(len, written - consumed)}
  ELSE IF peerClosed THEN {[ret |-> 0, errno |-> NoErr]}
  ELSE {[ret |-> -1, errno |-> EAGAIN]}

\* The descriptor is in non-blocking mode.
NonBlocking == (oflags \div O_NONBLOCK) % 2 = 1

\* A read of a descriptor in blocking mode does not return where a
\* non-blocking one answers would-block: the thread stays in the syscall.
ReadBlocks(len) ==
  ~NonBlocking /\ libc_read(len) = {[ret |-> -1, errno |-> EAGAIN]}

\* A closure that tests r <= 0 instead of r < 0.
ReadClosure_ZeroIsError(o) ==
  IF o.ret <= 0 THEN ErrRes(o.errno) ELSE OkRes(o.ret)

\* The closure handed to try_io: a negative return is the OS error, any
\* other return is a success.
ReadClosure(o) ==
  IF o.ret < 0 THEN ErrRes(o.errno) ELSE OkRes(o.ret)

\* A closure that leaves out buf.advance: the bytes are copied, the filled
\* length stays.
ReadAdvance_NoAdvance(filled, data, r) == filled

\* A read into the start of the buffer instead of its unfilled part.
ReadAdvance_Overwrite(filled, data, r) ==
  IF r < 0 THEN filled ELSE SubSeq(data, 1, r)

\* buf.assume_init(r); buf.advance(r): the r bytes the kernel copied into
\* the unfilled part join the filled part.
ReadAdvance(filled, data, r) ==
  IF r < 0 THEN filled ELSE filled \o SubSeq(data, 1, r)

\* A match that returns whatever the closure returned, would-block too.
ReadMatch_Surface(t, res) == [pc |-> "done", res |-> res]

\* A would-block arm that returns Poll::Pending instead of going back to
\* the readiness wait: no waker is registered.
ReadMatch_Park(t, res) ==
  IF t = "wouldblock" THEN [pc |-> "pending", res |-> NoRes]
  ELSE [pc |-> "done", res |-> res]

\* A match that takes a 0-byte read for "nothing to read yet" and goes back
\* to the readiness wait.
ReadMatch_RetryEof(t, res) ==
  IF t = "wouldblock" \/ (res.kind = "ok" /\ res.n = 0)
    THEN [pc |-> "clear", res |-> NoRes]
  ELSE [pc |-> "done", res |-> res]

\* A loop that goes on after a read that brought bytes, to bring more.
ReadMatch_FillBuffer(t, res) ==
  IF t = "wouldblock" \/ (res.kind = "ok" /\ res.n > 0)
    THEN [pc |-> "clear", res |-> NoRes]
  ELSE [pc |-> "done", res |-> res]

\* match guard.try_io(..) { Ok(result) => return Poll::Ready(result),
\*                          Err(_would_block) => continue }
ReadMatch(t, res) ==
  IF t = "wouldblock" THEN [pc |-> "clear", res |-> NoRes]
  ELSE [pc |-> "done", res |-> res]

\* A readiness wait whose Pending is not returned: the syscall is tried all
\* the same.
ReadAfterWait_NoReady(o) ==
  CASE o = "gone" -> [pc |-> "done", res |-> ErrRes(GONE)]
    [] OTHER -> [pc |-> "attempt", res |-> NoRes]

\* let mut guard = ready!(self.afd.poll_read_ready(cx))?;
ReadAfterWait(o) ==
  CASE o = "pending" -> [pc |-> "pending", res |-> NoRes]
    [] o = "gone" -> [pc |-> "done", res |-> ErrRes(GONE)]
    [] OTHER -> [pc |-> "attempt", res |-> NoRes]

\* What a read buffer holds before the call: bytes that are not of the
\* peer's stream, so a read that overwrote or dropped them would show.
Prefill == [i \in 1..PreFilled |-> 0]

\* The remaining capacities of the buffers a run reads into; a duplex run
\* reads into buffers of the largest capacity only.
ReadCaps == IF side = "duplex" THEN {MaxCap} ELSE 0..MaxCap

\* The caller starts a read with a buffer of PreFilled filled bytes and
\* `cap` bytes of remaining capacity.
ReadStart ==
  /\ Reads /\ Live
  /\ pcR \in {"idle", "done"}
  /\ \E cap \in ReadCaps :
       /\ rbufFilled' = Prefill
       /\ rbufCap' = PreFilled + cap
  /\ pcR' = "wait"
  /\ rres' = NoRes /\ rlast' = NoSys /\ rWB' = 0 /\ rIter' = 0
  /\ UNCHANGED <<kern, regR, regW, upsets, fixed, rtDown, got, writer, ctl>>

\* A read call that waits for the write direction's readiness.
poll_read_ready_ForWrite == WaitOutcome(wrReady)

\* self.afd.poll_read_ready(cx)
poll_read_ready == WaitOutcome(rdReady)

PollReadReady ==
  /\ pcR = "wait"
  /\ LET o == poll_read_ready
         a == ReadAfterWait(o)
     IN /\ pcR' = a.pc
        /\ rres' = a.res
        /\ rdWaker' = (a.pc = "pending")
        /\ rdFresh' = IF o = "ready" THEN TRUE ELSE rdFresh
        /\ rdRenewed' = IF o = "ready" THEN ~rdFresh ELSE rdRenewed
        /\ rIter' = IF a.pc = "pending" THEN rIter ELSE rIter + 1
  /\ UNCHANGED <<kern, rdReady, regW, upsets, fixed, rtDown, rbufFilled,
                 rbufCap, rlast, rWB, got, writer, ctl>>

\* guard.try_io(|_| { libc::read(..) .. }) and the match on its result.
ReadTryIo ==
  /\ pcR = "attempt"
  /\ ~ReadBlocks(rbufCap - Len(rbufFilled))
  /\ \E o \in libc_read(rbufCap - Len(rbufFilled)) :
       LET n == IF o.ret > 0 THEN o.ret ELSE 0
           data == SrcSlice(consumed, n)
           res == ReadClosure(o)
           m == ReadMatch(TryIo(res), res)
           filled == ReadAdvance(rbufFilled, data, o.ret)
       IN /\ consumed' = consumed + n
          /\ fdErr' = IF o.ret < 0 /\ o.errno # EAGAIN THEN NoErr ELSE fdErr
          /\ rlast' = o
          /\ rbufFilled' = filled
          /\ got' = got \o SubSeq(filled, Len(rbufFilled) + 1, Len(filled))
          /\ pcR' = m.pc
          /\ rres' = m.res
          /\ rWB' = IF o.ret < 0 /\ o.errno = EAGAIN THEN rWB + 1 ELSE rWB
  /\ UNCHANGED <<written, peerClosed, accepted, drained, wrShut, rdShut,
                 rdEvt, wrEvt, regR, regW, upsets, fixed, rtDown, rbufCap,
                 rIter, writer, ctl>>

\* libc::read on a descriptor in blocking mode with nothing to read: the
\* thread that polls the task is held inside the syscall.
ReadSyscallBlocks ==
  /\ pcR = "attempt"
  /\ ReadBlocks(rbufCap - Len(rbufFilled))
  /\ pcR' = "blocked"
  /\ UNCHANGED <<fixed, kern, regR, regW, upsets, rtDown, rbufFilled,
                 rbufCap, rres, rlast, rWB, rIter, got, writer, ctl>>

\* The kernel has something to answer: the syscall goes on to return.
ReadSyscallResumes ==
  /\ pcR = "blocked"
  /\ ~ReadBlocks(rbufCap - Len(rbufFilled))
  /\ pcR' = "attempt"
  /\ UNCHANGED <<fixed, kern, regR, regW, upsets, rtDown, rbufFilled,
                 rbufCap, rres, rlast, rWB, rIter, got, writer, ctl>>

\* The would-block arm: try_io has cleared the readiness, the loop goes
\* back to the readiness wait.
ReadClearReady ==
  /\ pcR = "clear"
  /\ rdReady' = ClearReady(rdReady, rdFresh)
  /\ pcR' = "wait"
  /\ UNCHANGED <<kern, rdWaker, rdFresh, rdRenewed, regW, upsets, fixed,
                 rtDown, rbufFilled, rbufCap, rres, rlast, rWB, rIter, got,
                 writer, ctl>>

\* The caller abandons a read call that is suspended, or woken and not yet
\* polled again: the future is dropped with the state of its loop; the
\* caller keeps its buffer, the registration keeps the waker it was given.
ReadCancel ==
  /\ Reads
  /\ pcR \in {"pending", "wait"} /\ cancels < MaxCancels
  /\ cancels' = cancels + 1
  /\ pcR' = "idle"
  /\ rres' = NoRes /\ rlast' = NoSys /\ rWB' = 0 /\ rIter' = 0
  /\ UNCHANGED <<side, oflags, snb, life, watched, regErr, kern, regR, regW,
                 upsets, rtDown, rbufFilled, rbufCap, got, writer, ctl>>

\* -------------------------------------------------------------- poll_write
\* libc::write(fd, buf, len): the answers the kernel can give.
libc_write(len) ==
  IF fdErr # NoErr THEN {[ret |-> -1, errno |-> fdErr]}
  ELSE IF wrShut THEN {[ret |-> -1, errno |-> EPIPE]}
  ELSE IF len = 0 THEN {[ret |-> 0, errno |-> NoErr]}
  ELSE IF SndCap > Len(accepted) - drained
    THEN {[ret |-> n, errno |-> NoErr] :
            n \in 1..Min(len, SndCap - (Len(accepted) - drained))}
  ELSE {[ret |-> -1, errno |-> EAGAIN]}

\* A closure that reports the whole buffer as written.
WriteClosure_WholeBuffer(o, len) ==
  IF o.ret < 0 THEN ErrRes(o.errno) ELSE OkRes(len)

\* A closure with no test of r: a failed write is reported as a write of the
\* whole buffer.
WriteClosure_NoErrorCheck(o, len) ==
  IF o.ret < 0 THEN OkRes(len) ELSE OkRes(o.ret)

\* The closure handed to try_io, over a source buffer of len bytes:
\* Err(last_os_error) or Ok(r as usize).
WriteClosure(o, len) ==
  IF o.ret < 0 THEN ErrRes(o.errno) ELSE OkRes(o.ret)

\* A match that takes every error for a would-block and tries again.
WriteMatch_RetryErrors(t, res) ==
  IF res.kind = "err" THEN [pc |-> "clear", res |-> NoRes]
  ELSE [pc |-> "done", res |-> res]

\* A would-block arm that returns Poll::Pending with no waker registered.
WriteMatch_Park(t, res) ==
  IF t = "wouldblock" THEN [pc |-> "pending", res |-> NoRes]
  ELSE [pc |-> "done", res |-> res]

\* A loop that goes round again after a write that took bytes, to hand the
\* descriptor the rest.
WriteMatch_Resubmit(t, res) ==
  IF t = "wouldblock" \/ (res.kind = "ok" /\ res.n > 0)
    THEN [pc |-> "clear", res |-> NoRes]
  ELSE [pc |-> "done", res |-> res]

\* A would-block arm that tries the syscall again at once, with no
\* readiness wait in between.
WriteMatch_Spin(t, res) ==
  IF t = "wouldblock" THEN [pc |-> "attempt", res |-> NoRes]
  ELSE [pc |-> "done", res |-> res]

\* match guard.try_io(..) { Ok(result) => return Poll::Ready(result),
\*                          Err(_would_block) => continue }
WriteMatch(t, res) ==
  IF t = "wouldblock" THEN [pc |-> "clear", res |-> NoRes]
  ELSE [pc |-> "done", res |-> res]

\* let mut guard = ready!(self.afd.poll_write_ready(cx))?;
WriteAfterWait(o) ==
  CASE o = "pending" -> [pc |-> "pending", res |-> NoRes]
    [] o = "gone" -> [pc |-> "done", res |-> ErrRes(GONE)]
    [] OTHER -> [pc |-> "attempt", res |-> NoRes]

\* The caller starts a write of the next n bytes it has to send.
WriteStart ==
  /\ Writes /\ Live
  /\ pcW \in {"idle", "done"}
  /\ \E n \in 0..(MaxOut - Len(reported)) :
       wbuf' = OutSlice(Len(reported), n)
  /\ pcW' = "wait"
  /\ wres' = NoRes /\ wlast' = NoSys /\ wWB' = 0 /\ wIter' = 0
  /\ UNCHANGED <<kern, regR, regW, upsets, fixed, rtDown, reported, reader,
                 ctl>>

\* self.afd.poll_write_ready(cx)
poll_write_ready == WaitOutcome(wrReady)

PollWriteReady ==
  /\ pcW = "wait"
  /\ LET o == poll_write_ready
         a == WriteAfterWait(o)
     IN /\ pcW' = a.pc
        /\ wres' = a.res
        /\ wrWaker' = (a.pc = "pending")
        /\ wrFresh' = IF o = "ready" THEN TRUE ELSE wrFresh
        /\ wrRenewed' = IF o = "ready" THEN ~wrFresh ELSE wrRenewed
        /\ wIter' = IF a.pc = "pending" THEN wIter ELSE wIter + 1
  /\ UNCHANGED <<kern, wrReady, regR, upsets, fixed, rtDown, wbuf, wlast,
                 wWB, reported, reader, ctl>>

\* guard.try_io(|_| { libc::write(..) .. }) and the match on its result.
WriteTryIo ==
  /\ pcW = "attempt"
  /\ \E o \in libc_write(Len(wbuf)) :
       LET n == IF o.ret > 0 THEN o.ret ELSE 0
           res == WriteClosure(o, Len(wbuf))
           m == WriteMatch(TryIo(res), res)
       IN /\ accepted' = accepted \o SubSeq(wbuf, 1, n)
          /\ fdErr' = IF o.ret < 0 /\ o.errno \in Errnos THEN NoErr ELSE fdErr
          /\ wlast' = o
          /\ pcW' = m.pc
          /\ wres' = m.res
          /\ reported' = IF m.res.kind = "ok"
                           THEN reported \o SubSeq(wbuf, 1, m.res.n)
                           ELSE reported
          /\ wWB' = IF o.ret < 0 /\ o.errno = EAGAIN THEN wWB + 1 ELSE wWB
  /\ UNCHANGED <<written, consumed, peerClosed, drained, wrShut, rdShut,
                 rdEvt, wrEvt, regR, regW, upsets, fixed, rtDown, wbuf,
                 wIter, reader, ctl>>

WriteClearReady ==
  /\ pcW = "clear"
  /\ wrReady' = ClearReady(wrReady, wrFresh)
  /\ pcW' = "wait"
  /\ UNCHANGED <<kern, wrWaker, wrFresh, wrRenewed, regR, upsets, fixed,
                 rtDown, wbuf, wres, wlast, wWB, wIter, reported, reader,
                 ctl>>

\* The caller abandons a write call that is suspended, or woken and not
\* yet polled again.
WriteCancel ==
  /\ Writes
  /\ pcW \in {"pending", "wait"} /\ cancels < MaxCancels
  /\ cancels' = cancels + 1
  /\ pcW' = "idle"
  /\ wres' = NoRes /\ wlast' = NoSys /\ wWB' = 0 /\ wIter' = 0
  /\ UNCHANGED <<side, oflags, snb, life, watched, regErr, kern, regR, regW,
                 upsets, rtDown, wbuf, reported, reader, ctl>>

\* ------------------------------------------------- poll_flush, poll_shutdown
\* The writer task is not inside poll_write.
BetweenPolls == pcW \in {"idle", "done", "pending", "wait"}

\* A flush that fails once the write direction is shut down.
FlushResult_FailsAfterShutdown ==
  IF wrShut THEN ErrRes(EPIPE) ELSE OkRes(0)

\* Poll::Ready(Ok(()))
FlushResult == OkRes(0)

poll_flush ==
  /\ Controls /\ Live /\ BetweenPolls
  /\ ctl' = [op |-> "flush", ret |-> 0, errno |-> NoErr, res |-> FlushResult]
  /\ UNCHANGED <<kern, regR, regW, upsets, fixed, rtDown, reader, writer>>

\* A shutdown of both directions.
ShutHow_Both == "SHUT_RDWR"

\* The direction poll_shutdown hands to libc::shutdown.
ShutHow == "SHUT_WR"

\* libc::shutdown(fd, how): 0, or -1 where the descriptor cannot be shut
\* down.
libc_shutdown(how) ==
  {[ret |-> 0, errno |-> NoErr, wr |-> TRUE, rd |-> how = "SHUT_RDWR"],
   [ret |-> -1, errno |-> ENOTCONN, wr |-> FALSE, rd |-> FALSE]}

\* if r == 0 { Ok(()) } else { Err(last_os_error) }
ShutdownResult(o) ==
  IF o.ret = 0 THEN OkRes(0) ELSE ErrRes(o.errno)

poll_shutdown ==
  /\ Controls /\ Live /\ BetweenPolls
  /\ \E o \in libc_shutdown(ShutHow) :
       /\ wrShut' = (wrShut \/ o.wr)
       /\ rdShut' = (rdShut \/ o.rd)
       /\ ctl' = [op |-> "shutdown", ret |-> o.ret, errno |-> o.errno,
                  res |-> ShutdownResult(o)]
  /\ UNCHANGED <<fixed, written, consumed, peerClosed, fdErr, accepted,
                 drained, rdEvt, wrEvt, regR, regW, upsets, rtDown, reader,
                 writer>>

\* ---------------------------------------------------------- specifications
\* A syscall of the direction the run does not exercise reports the
\* pending error, and so clears it.
ErrTakenByOther ==
  /\ Faulty
  /\ fdErr # NoErr
  /\ fdErr' = NoErr
  /\ UNCHANGED <<fixed, written, consumed, peerClosed, accepted, drained,
                 wrShut, rdShut, rdEvt, wrEvt, regR, regW, upsets, rtDown,
                 reader, writer, ctl>>

Next ==
  \/ PeerWrite \/ PeerClose \/ PeerDrain \/ OsFault \/ ErrTakenByOther
  \/ ReactorReadable \/ ReactorWritable
  \/ ReactorSpuriousReadable \/ ReactorSpuriousWritable \/ ReactorShutdown
  \/ ReadStart \/ PollReadReady \/ ReadTryIo \/ ReadClearReady
  \/ WriteStart \/ PollWriteReady \/ WriteTryIo \/ WriteClearReady
  \/ poll_flush \/ poll_shutdown

Spec == Init /\ [][Next]_vars

\* The scheduler runs a poll function to its return and polls a woken task
\* again; the reactor delivers every event the kernel holds.
Fairness ==
  /\ WF_vars(PollReadReady) /\ WF_vars(ReadTryIo) /\ WF_vars(ReadClearReady)
  /\ WF_vars(PollWriteReady) /\ WF_vars(WriteTryIo)
  /\ WF_vars(WriteClearReady)
  /\ WF_vars(ReactorReadable) /\ WF_vars(ReactorWritable)

FairSpec == Spec /\ Fairness

\* One reader task and one writer task on the same adapter.
DuplexInit == side = "duplex" /\ Wrapped /\ Fresh

DuplexNext ==
  \/ PeerWrite \/ PeerDrain
  \/ ReactorReadable \/ ReactorWritable
  \/ ReadStart \/ PollReadReady \/ ReadTryIo \/ ReadClearReady
  \/ WriteStart \/ PollWriteReady \/ WriteTryIo \/ WriteClearReady

DuplexSpec == DuplexInit /\ [][DuplexNext]_vars /\ Fairness

\* Runs in which the one task of the run's side is alone on the
\* descriptor and every notification has a kernel event behind it.
SoloInit == side \in {"read", "write"} /\ Wrapped /\ Fresh

SoloNext ==
  \/ PeerWrite \/ PeerClose \/ PeerDrain \/ OsFault
  \/ ReactorReadable \/ ReactorWritable \/ ReactorShutdown
  \/ ReadStart \/ PollReadReady \/ ReadTryIo \/ ReadClearReady
  \/ WriteStart \/ PollWriteReady \/ WriteTryIo \/ WriteClearReady
  \/ poll_flush \/ poll_shutdown

SoloSpec == SoloInit /\ [][SoloNext]_vars

\* Calls that their caller may abandon while they are suspended.
CancelInit == side \in {"read", "write"} /\ Wrapped /\ Fresh

CancelNext ==
  \/ PeerWrite \/ PeerClose \/ PeerDrain
  \/ ReactorReadable \/ ReactorWritable
  \/ ReadStart \/ PollReadReady \/ ReadTryIo \/ ReadClearReady
  \/ WriteStart \/ PollWriteReady \/ WriteTryIo \/ WriteClearReady
  \/ ReadCancel \/ WriteCancel

CancelSpec == CancelInit /\ [][CancelNext]_vars /\ Fairness

\* A descriptor wrapped while still in blocking mode: anyfd does not set
\* O_NONBLOCK, and the caller has not called set_nonblocking.
BlockingInit == side = "read" /\ oflags = O_RDWR /\ Adapted /\ Fresh

BlockingNext ==
  \/ PeerWrite \/ PeerClose
  \/ ReactorReadable \/ ReactorSpuriousReadable
  \/ ReadStart \/ PollReadReady \/ ReadTryIo
  \/ ReadSyscallBlocks \/ ReadSyscallResumes

BlockingSpec == BlockingInit /\ [][BlockingNext]_vars

\* The adapter from before its construction to after its drop.
LifeInit ==
  /\ side \in {"read", "write"}
  /\ oflags = O_RDWR + O_NONBLOCK /\ snb = NoCall
  /\ life = "none" /\ watched = FALSE /\ regErr = NoErr
  /\ cancels = 0
  /\ Fresh

LifeNext ==
  \/ anyfd \/ DropAnyfd \/ DeregisterAgain
  \/ PeerWrite \/ PeerClose \/ PeerDrain
  \/ ReactorReadable \/ ReactorWritable
  \/ ReadStart \/ PollReadReady \/ ReadTryIo \/ ReadClearReady
  \/ WriteStart \/ PollWriteReady \/ WriteTryIo \/ WriteClearReady

LifeSpec == LifeInit /\ [][LifeNext]_vars

\* --------------------------------------------------------- set_nonblocking
\* The other access modes, the mask of the access mode, and status flags
\* other than O_NONBLOCK.
O_RDONLY == 0
O_WRONLY == 1
O_ACCMODE == 3
O_APPEND == 1024
O_ASYNC == 8192

\* The file status flags a descriptor can have when set_nonblocking is
\* called on it.
FileFlags ==
  {acc + app + nb + sig : acc \in {O_RDONLY, O_WRONLY, O_RDWR},
                          app \in {0, O_APPEND}, nb \in {0, O_NONBLOCK},
                          sig \in {0, O_ASYNC}}

\* The bitwise or of two non-negative integers.
RECURSIVE BitOr(_, _)
BitOr(a, b) ==
  IF a = 0 THEN b
  ELSE IF b = 0 THEN a
  ELSE (IF a % 2 = 1 \/ b % 2 = 1 THEN 1 ELSE 0)
         + 2 * BitOr(a \div 2, b \div 2)

\* libc::fcntl(fd, F_GETFL): the flags, or -1 on a descriptor that is not
\* open.
fcntl_getfl ==
  {[ret |-> oflags, errno |-> NoErr], [ret |-> -1, errno |-> EBADF]}

\* libc::fcntl(fd, F_SETFL, arg): the kernel takes the status flags from
\* arg and keeps the access mode; or it refuses and changes nothing.
fcntl_setfl(arg) ==
  {[ret |-> 0, errno |-> NoErr,
    flags |-> (oflags % (O_ACCMODE + 1)) + (arg - (arg % (O_ACCMODE + 1)))],
   [ret |-> -1, errno |-> EPERM, flags |-> oflags]}

\* An assignment in place of the or: the flags read are thrown away.
FlagsOrNonblock_Assign(flags) == O_NONBLOCK

\* flags |= libc::O_NONBLOCK;
FlagsOrNonblock(flags) == BitOr(flags, O_NONBLOCK)

\* set_nonblocking(fd): snb keeps the flags before the call, the argument
\* handed to F_SETFL (-1: F_SETFL not called) and the result.
set_nonblocking ==
  /\ snb.n < MaxCalls
  /\ \E g \in fcntl_getfl :
       IF g.ret < 0
         THEN /\ oflags' = oflags
              /\ snb' = [n |-> snb.n + 1, before |-> oflags, arg |-> -1,
                         res |-> ErrRes(g.errno)]
       ELSE \E r \in fcntl_setfl(FlagsOrNonblock(g.ret)) :
              /\ oflags' = r.flags
              /\ snb' = [n |-> snb.n + 1, before |-> oflags,
                         arg |-> FlagsOrNonblock(g.ret),
                         res |-> IF r.ret < 0 THEN ErrRes(r.errno)
                                 ELSE OkRes(0)]
  /\ UNCHANGED <<side, life, watched, regErr, cancels, kern, regR, regW,
                 upsets, rtDown, reader, writer, ctl>>

\* A descriptor not yet wrapped, with any of the flag sets, on which
\* set_nonblocking is called.
FlagsInit ==
  /\ side = "read"
  /\ oflags \in FileFlags /\ snb = NoCall
  /\ life = "none" /\ watched = FALSE /\ regErr = NoErr
  /\ cancels = 0
  /\ Fresh

FlagsNext == set_nonblocking

FlagsSpec == FlagsInit /\ [][FlagsNext]_vars

\* ------------------------------------------------------------------ claims
ReadDone == pcR = "done"
WriteDone == pcW = "done"
ReadWouldBlock == rlast.ret < 0 /\ rlast.errno = EAGAIN
WriteWouldBlock == wlast.ret < 0 /\ wlast.errno = EAGAIN
\* The remaining capacity the read buffer had when the call began.
ReadCap == rbufCap - PreFilled
\* The bytes the call has put into the read buffer.
ReadNew == SubSeq(rbufFilled, PreFilled + 1, Len(rbufFilled))

\* C1: a read or write call that has completed returned a success or an
\* error, and the error is never the would-block error: a call whose last
\* raw syscall answered would-block is either still in its loop (clearing
\* the readiness, waiting again, suspended, or attempting again) or was
\* ended by the readiness wait of the pass that followed.
C1_WouldBlockAbsorbed ==
  /\ ReadDone =>
       /\ rres.kind \in {"ok", "err"}
       /\ rres.errno # EAGAIN
       /\ ReadWouldBlock => rres = ErrRes(GONE) /\ rIter > rWB
  /\ WriteDone =>
       /\ wres.kind \in {"ok", "err"}
       /\ wres.errno # EAGAIN
       /\ WriteWouldBlock => wres = ErrRes(GONE) /\ wIter > wWB
  /\ ReadWouldBlock /\ ~ReadDone =>
       pcR \in {"clear", "wait", "pending", "attempt"} /\ rres = NoRes
  /\ WriteWouldBlock /\ ~WriteDone =>
       pcW \in {"clear", "wait", "pending", "attempt"} /\ wres = NoRes

\* A read call that met a would-block and then completed with a success.
C1_Witness == ReadDone /\ rWB > 0 /\ rres.kind = "ok" /\ rlast.ret > 0

\* C2: the bytes successful reads have returned are, in order, exactly the
\* bytes read syscalls took from the kernel, which are a prefix of what the
\* peer wrote; a read that completed with a success into a buffer of
\* remaining capacity C >= 1 added n bytes with 0 <= n <= C to the filled
\* part, n being the syscall's return, kept what was filled before, and the
\* n bytes are the last n bytes taken from the peer's stream.
C2_ReadDeliversSource ==
  /\ got = SrcSlice(0, Len(got))
  /\ Len(got) = consumed
  /\ consumed <= written
  /\ ReadDone /\ rres.kind = "ok" /\ ReadCap >= 1 =>
       /\ Len(rbufFilled) = PreFilled + rlast.ret
       /\ rlast.ret >= 0 /\ rlast.ret <= ReadCap
       /\ SubSeq(rbufFilled, 1, PreFilled) = Prefill
       /\ ReadNew = SrcSlice(consumed - rlast.ret, rlast.ret)

\* The second successful read of a run returned fewer bytes than its
\* buffer had room for, and the peer's whole stream has been returned.
C2_Witness ==
  /\ ReadDone /\ rres.kind = "ok"
  /\ rlast.ret >= 1 /\ rlast.ret < ReadCap
  /\ Len(got) > rlast.ret /\ Len(got) = MaxSrc

\* C3: a read call whose raw read returned 0 is complete, with a success
\* that added no byte to the buffer, and the read readiness is still set;
\* and a success that added no byte to a buffer with remaining capacity
\* >= 1 means end-of-stream: the peer has closed and every byte it wrote
\* has been read.
C3_ZeroIsEndOfStream ==
  /\ rlast = [ret |-> 0, errno |-> NoErr] =>
       /\ ReadDone
       /\ rres = OkRes(0)
       /\ Len(rbufFilled) = PreFilled
       /\ rdReady
  /\ ReadDone /\ rres.kind = "ok" /\ ReadCap >= 1
       /\ Len(rbufFilled) = PreFilled =>
       peerClosed /\ consumed = written

\* End-of-stream read into a buffer with room, after the peer's data.
C3_Witness ==
  /\ ReadDone /\ rlast = [ret |-> 0, errno |-> NoErr]
  /\ ReadCap >= 1 /\ peerClosed /\ written > 0

\* C4: the bytes the descriptor has accepted are exactly the prefixes the
\* write calls have reported, in order; a write call that completed
\* returned an error or a success count k with 0 <= k <= N, N the length of
\* its source buffer, k being the syscall's return.
C4_WriteReportsAccepted ==
  /\ accepted = reported
  /\ reported = OutSlice(0, Len(reported))
  /\ WriteDone =>
       /\ wres.kind \in {"ok", "err"}
       /\ wres.kind = "ok" =>
            wres.n >= 0 /\ wres.n <= Len(wbuf) /\ wres.n = wlast.ret

\* A short write: the descriptor took one byte of a longer buffer.
C4_Witness ==
  /\ WriteDone /\ wres.kind = "ok"
  /\ wres.n >= 1 /\ wres.n < Len(wbuf)

\* C5: a call whose raw syscall failed with an error other than would-block
\* is complete and returned that error code (no later syscall or readiness
\* wait of the call has replaced it); and a readiness wait that fails ends
\* the call at once with the wait's error.
SysFailed(o) == o.ret < 0 /\ o.errno # EAGAIN

C5_ErrorsSurface ==
  /\ SysFailed(rlast) => ReadDone /\ rres = ErrRes(rlast.errno)
  /\ SysFailed(wlast) => WriteDone /\ wres = ErrRes(wlast.errno)

C5_WaitErrorReturned ==
  /\ pcR = "wait" /\ rtDown /\ pcR' # pcR =>
       pcR' = "done" /\ rres' = ErrRes(GONE) /\ rlast' = rlast
  /\ pcW = "wait" /\ rtDown /\ pcW' # pcW =>
       pcW' = "done" /\ wres' = ErrRes(GONE) /\ wlast' = wlast

C5_ErrorsReturnedAtOnce == []C5_ErrorsSurface /\ [][C5_WaitErrorReturned]_vars

\* A write call that met a would-block and then failed with the kernel's
\* error.
C5_Witness ==
  /\ WriteDone /\ wWB > 0 /\ SysFailed(wlast) /\ wres.errno \in Errnos

\* C6: a call in progress always goes on to complete, or to be suspended
\* with its waker registered while the reactor owes it no notification
\* (the flag is clear and the kernel holds no event for the direction);
\* and a call that has completed made one pass more through its loop than
\* its raw syscalls answered would-block.
ReadParked == pcR = "pending" /\ rdWaker /\ ~rdReady /\ ~rdEvt
WriteParked == pcW = "pending" /\ wrWaker /\ ~wrReady /\ ~wrEvt
InCall(pc) == pc \in {"wait", "attempt", "clear", "pending"}

C6_PassCount ==
  /\ ReadDone => rIter = rWB + 1
  /\ WriteDone => wIter = wWB + 1

C6_CallCompletes ==
  /\ []C6_PassCount
  /\ InCall(pcR) ~> (ReadDone \/ ReadParked)
  /\ InCall(pcW) ~> (WriteDone \/ WriteParked)

\* A read call that completed with a success in its third pass, after two
\* would-block answers.
C6_Witness == ReadDone /\ rWB = 2 /\ rIter = 3 /\ rres.kind = "ok"

\* C7: a raw syscall is attempted only while the direction's readiness
\* flag is set; after a would-block the next attempt of the call rests on
\* a notification newer than the one the failed attempt rested on; a
\* suspended call has its waker registered and finds the flag clear; a
\* call that finds the flag clear at its readiness wait suspends, and a
\* call becomes suspended at its readiness wait and nowhere else.
C7_AttemptsNeedReadiness ==
  /\ pcR = "attempt" => rdReady /\ (rWB > 0 => rdRenewed)
  /\ pcW = "attempt" => wrReady /\ (wWB > 0 => wrRenewed)
  /\ pcR = "pending" => rdWaker /\ ~rdReady
  /\ pcW = "pending" => wrWaker /\ ~wrReady

C7_SuspendsAtWaitOnly ==
  /\ pcR = "wait" /\ ~rdReady /\ ~rtDown /\ pcR' # pcR =>
       pcR' = "pending" /\ rdWaker' /\ rlast' = rlast /\ consumed' = consumed
  /\ pcW = "wait" /\ ~wrReady /\ ~rtDown /\ pcW' # pcW =>
       pcW' = "pending" /\ wrWaker' /\ wlast' = wlast /\ accepted' = accepted
  /\ pcR' = "pending" /\ pcR # "pending" => pcR = "wait"
  /\ pcW' = "pending" /\ pcW # "pending" => pcW = "wait"

C7_NoBusyPolling ==
  []C7_AttemptsNeedReadiness /\ [][C7_SuspendsAtWaitOnly]_vars

\* A write call attempting its syscall again after a would-block.
C7_Witness == pcW = "attempt" /\ wWB > 0 /\ wrRenewed

\* C8: a call is never suspended while its readiness flag is set (the wait
\* returns at once on an unconsumed notification); a call suspended while
\* the descriptor is readable (writable) has its waker registered and the
\* kernel still holds the event, so the wakeup is yet to come; and a
\* suspended call for which the kernel holds an event is resumed.
ReadableNow == fdErr # NoErr \/ written > consumed \/ peerClosed
WritableNow ==
  fdErr # NoErr \/ (~wrShut /\ SndCap > Len(accepted) - drained)

C8_WakeupPending ==
  /\ pcR = "pending" => rdWaker /\ ~rdReady /\ (ReadableNow => rdEvt)
  /\ pcW = "pending" => wrWaker /\ ~wrReady /\ (WritableNow => wrEvt)

C8_NoLostWakeup ==
  /\ []C8_WakeupPending
  /\ (pcR = "pending" /\ rdEvt) ~> (pcR # "pending")
  /\ (pcW = "pending" /\ wrEvt) ~> (pcW # "pending")

\* A reader suspended after a would-block, with data that arrived since and
\* the notification for it not yet delivered.
C8_Witness ==
  pcR = "pending" /\ rWB > 0 /\ written > consumed /\ rdEvt

\* C9: a flush can be called whenever the writer is not inside poll_write,
\* whatever the readiness, the shutdown state and the last write's result;
\* it returns success, and it changes nothing of the descriptor, of either
\* direction's readiness, or of a read or write call in progress.
FlushStep == ctl' # ctl /\ ctl'.op = "flush"

C9_FlushFrame ==
  FlushStep =>
    /\ ctl'.res = OkRes(0)
    /\ UNCHANGED <<kern, regR, regW, upsets, rtDown, reader, writer>>

C9_FlushIsNoOp ==
  /\ [](Controls /\ BetweenPolls => ENABLED poll_flush)
  /\ [][C9_FlushFrame]_vars

\* A flush after a shutdown, with a write call suspended and the write
\* readiness clear.
C9_Witness ==
  /\ ctl.op = "flush" /\ ctl.res.kind = "ok"
  /\ wrShut /\ pcW = "pending" /\ ~wrReady

\* C10: a shutdown can be called whenever the writer is not inside
\* poll_write and completes in that one step: it returns success if and
\* only if the syscall returned 0, and otherwise the syscall's error; it
\* shuts the write direction down when the syscall succeeded and changes
\* nothing of the read direction nor of either readiness; a read that
\* succeeds after a shutdown still delivers the next bytes of the peer's
\* stream, and reports end-of-stream only once the peer has closed and all
\* its bytes are read.
ShutdownStep == ctl' # ctl /\ ctl'.op = "shutdown"

C10_ShutdownFrame ==
  ShutdownStep =>
    /\ ctl'.res.kind = "ok" <=> ctl'.ret = 0
    /\ ctl'.ret # 0 => ctl'.res = ErrRes(ctl'.errno) /\ ctl'.errno # NoErr
    /\ wrShut' = (wrShut \/ ctl'.ret = 0)
    /\ UNCHANGED <<written, consumed, peerClosed, rdShut, rdEvt, fdErr>>
    /\ UNCHANGED <<regR, regW, reader, writer>>

C10_ReadsAfterShutdown ==
  wrShut /\ ReadDone /\ rres.kind = "ok" /\ ReadCap >= 1 =>
    /\ ReadNew = SrcSlice(consumed - rlast.ret, rlast.ret)
    /\ rlast.ret = 0 => peerClosed /\ consumed = written

C10_HalfCloseOnly ==
  /\ [](Controls /\ BetweenPolls => ENABLED poll_shutdown)
  /\ []C10_ReadsAfterShutdown
  /\ [][C10_ShutdownFrame]_vars

\* After a successful shutdown a read has returned the last byte of the
\* peer's stream.
C10_Witness ==
  /\ ctl.op = "shutdown" /\ ctl.ret = 0 /\ wrShut
  /\ ReadDone /\ rres.kind = "ok" /\ rlast.ret >= 1 /\ consumed = MaxSrc

\* C11: a write syscall made once the write direction is shut down, for a
\* non-empty buffer, ends the call with an error of the OS (the broken-pipe
\* error, or an error pending on the descriptor) and hands no byte to the
\* descriptor, so nothing is reported written and dropped; the shutdown
\* itself leaves no mark on the adapter: it changes neither readiness nor
\* the writer's call, and a write can be started after it as before.
C11_WriteAfterShutdownFails ==
  wrShut /\ pcW = "attempt" /\ Len(wbuf) > 0 /\ pcW' # pcW =>
    /\ pcW' = "done"
    /\ wlast'.ret < 0
    /\ wres' = ErrRes(wlast'.errno)
    /\ wlast'.errno \in {EPIPE} \cup Errnos
    /\ accepted' = accepted /\ reported' = reported

C11_NoRecordOfShutdown ==
  ShutdownStep => UNCHANGED <<regR, regW, reader, writer>>

C11_NoSilentWriteAfterShutdown ==
  /\ [][C11_WriteAfterShutdownFails]_vars
  /\ [][C11_NoRecordOfShutdown]_vars
  /\ [](Writes /\ pcW \in {"idle", "done"} => ENABLED WriteStart)
  /\ [](accepted = reported)

\* A write of a non-empty buffer started after a successful shutdown has
\* failed with the broken-pipe error.
C11_Witness ==
  /\ ctl.op = "shutdown" /\ ctl.ret = 0 /\ wrShut
  /\ WriteDone /\ Len(wbuf) > 0
  /\ wlast = [ret |-> -1, errno |-> EPIPE] /\ wres = ErrRes(EPIPE)

\* C12: with a reader task and a writer task on the same adapter, a step
\* of a read call changes nothing of the write direction's readiness or of
\* the write call, and a step of a write call nothing of the read
\* direction's; a direction's readiness flag is cleared only by the
\* would-block arm of a call of that direction; a suspended task is resumed
\* only with its own direction's flag set, and while it is suspended and
\* its direction can proceed the kernel still holds its event; and under
\* fairness every call of either direction goes on to complete, or to be
\* suspended with no notification owed to it.
C12_OwnDirectionOnly ==
  /\ pcR \in {"wait", "attempt", "clear"} /\ pcR' # pcR =>
       UNCHANGED <<regW, writer, accepted, drained, wrEvt>>
  /\ pcW \in {"wait", "attempt", "clear"} /\ pcW' # pcW =>
       UNCHANGED <<regR, reader, written, consumed, rdEvt>>
  /\ rdReady /\ ~rdReady' => pcR = "clear" /\ ReadWouldBlock
  /\ wrReady /\ ~wrReady' => pcW = "clear" /\ WriteWouldBlock
  /\ pcR = "pending" /\ pcR' # pcR => pcR' = "wait" /\ rdReady'
  /\ pcW = "pending" /\ pcW' # pcW => pcW' = "wait" /\ wrReady'

C12_BothInFlight ==
  /\ pcR = "attempt" => rdReady
  /\ pcW = "attempt" => wrReady
  /\ pcR = "pending" => rdWaker /\ ~rdReady /\ (ReadableNow => rdEvt)
  /\ pcW = "pending" => wrWaker /\ ~wrReady /\ (WritableNow => wrEvt)

C13_NothingTransferred ==
  /\ pcR \in {"pending", "wait"} =>
       /\ rbufFilled = Prefill
       /\ rlast = NoSys \/ ReadWouldBlock
  /\ pcW \in {"pending", "wait"} => wlast = NoSys \/ WriteWouldBlock
  /\ got = SrcSlice(0, consumed)
  /\ accepted = reported
  /\ pcR = "pending" => rdWaker /\ ~rdReady /\ (ReadableNow => rdEvt)
  /\ pcW = "pending" => wrWaker /\ ~wrReady /\ (WritableNow => wrEvt)

C13_CancelFrame ==
  cancels' # cancels =>
    /\ UNCHANGED <<kern, rdReady, wrReady, rbufFilled, rbufCap, wbuf, got,
                   reported>>
    /\ pcR' # pcR => pcR' = "idle"
    /\ pcW' # pcW => pcW' = "idle"

C13_CancelLeavesNoTrace ==
  /\ []C13_NothingTransferred
  /\ [][C13_CancelFrame]_vars
  /\ InCall(pcR) ~> (ReadDone \/ ReadParked \/ pcR = "idle")
  /\ InCall(pcW) ~> (WriteDone \/ WriteParked \/ pcW = "idle")

\* A read call was abandoned, and a later read call returned the peer's
\* whole stream from its first byte.
C13_Witness ==
  /\ cancels > 0
  /\ ReadDone /\ rres.kind = "ok"
  /\ ReadNew = SrcSlice(0, MaxSrc)

\* C14: with a descriptor wrapped in blocking mode, the thread that drives
\* a read is never held inside the raw read syscall with nothing to read.
C14_ReadNeverHoldsThread == pcR # "blocked"

\* C15: the descriptor is in the reactor's watched set exactly while an
\* adapter wraps it; the constructor ends with an adapter and the
\* descriptor registered, or with the registration's error, no adapter
\* and nothing registered; the only other change of the adapter's life is
\* its drop, which deregisters; a deregistration, the first or a repeated
\* one, leaves the descriptor out of the watched set and reports no
\* error, and a repeated one can always be made; a call is in progress
\* only on a live adapter, and without a live adapter no read or write
\* syscall is made and no readiness is delivered.
C15_WatchedIffLive ==
  /\ watched <=> Live
  /\ life = "failed" <=> regErr # NoErr
  /\ ~Live => pcR \in {"idle", "done"} /\ pcW \in {"idle", "done"}

C15_LifeSteps ==
  /\ life' # life =>
       \/ life = "none" /\ life' \in {"live", "failed"}
       \/ life = "live" /\ life' = "dropped"
  /\ life' = "dropped" => ~watched' /\ regErr' = NoErr
  /\ ~Live /\ life' = life =>
       UNCHANGED <<consumed, accepted, rlast, wlast, regR, regW, reader,
                   writer, watched>>

C15_RegisteredWhileLive ==
  /\ []C15_WatchedIffLive
  /\ [][C15_LifeSteps]_vars
  /\ [](life = "dropped" => ENABLED DeregisterAgain)

\* An adapter that read the peer's data has been dropped.
C15_Witness ==
  life = "dropped" /\ ~watched /\ ReadDone /\ rres.kind = "ok" /\ consumed > 0

\* The steps of the per-direction state machine: Idle (idle, done) to
\* AwaitingReadiness (wait, pending), to Attempting (attempt), and from
\* there back to AwaitingReadiness on a would-block (clear, wait) or to
\* Completed or Failed (done).
CallEdges ==
  {<<"idle", "wait">>, <<"done", "wait">>,
   <<"wait", "pending">>, <<"pending", "wait">>, <<"wait", "attempt">>,
   <<"attempt", "clear">>, <<"clear", "wait">>, <<"attempt", "done">>}

\* What a call returns, given the last answer of its raw syscall: the
\* syscall's count or error, or the readiness wait's error where the call
\* ended without a syscall answer other than would-block.
Returned(last) ==
  IF last.errno = NoErr THEN OkRes(last.ret)
  ELSE IF last.errno \in {"unset", EAGAIN} THEN ErrRes(GONE)
  ELSE ErrRes(last.errno)

\* C16 as stated: every step of a call is a step of the state machine
\* Idle -> AwaitingReadiness -> Attempting -> {AwaitingReadiness |
\* Completed | Failed}, in which Failed is entered from Attempting only.
C16_MachineAsStated ==
  [][/\ pcR' # pcR => <<pcR, pcR'>> \in CallEdges
     /\ pcW' # pcW => <<pcW, pcW'>> \in CallEdges]_vars

\* C16, amended: every step of a call is a step of that state machine, or
\* the step from AwaitingReadiness to Failed that a failed readiness wait
\* makes; a call that is attempting leaves that state with its next step;
\* a completed or failed call changes no more; a later call can always be
\* started, starts at the readiness wait with nothing kept of the call
\* before and without touching descriptor or readiness; and what a call
\* returns is given by the last answer of its own raw syscall.
C16_Edges ==
  /\ pcR' # pcR =>
       \/ <<pcR, pcR'>> \in CallEdges
       \/ pcR = "wait" /\ pcR' = "done" /\ rtDown /\ rres' = ErrRes(GONE)
  /\ pcW' # pcW =>
       \/ <<pcW, pcW'>> \in CallEdges
       \/ pcW = "wait" /\ pcW' = "done" /\ rtDown /\ wres' = ErrRes(GONE)
  /\ pcR = "attempt" /\ pcR' = pcR => UNCHANGED reader
  /\ pcW = "attempt" /\ pcW' = pcW => UNCHANGED writer
  /\ pcR = "done" /\ pcR' = pcR => UNCHANGED reader
  /\ pcW = "done" /\ pcW' = pcW => UNCHANGED writer
  /\ pcR \in {"idle", "done"} /\ pcR' # pcR =>
       /\ rres' = NoRes /\ rlast' = NoSys /\ rWB' = 0 /\ rIter' = 0
       /\ UNCHANGED <<kern, regR, regW, got>>
  /\ pcW \in {"idle", "done"} /\ pcW' # pcW =>
       /\ wres' = NoRes /\ wlast' = NoSys /\ wWB' = 0 /\ wIter' = 0
       /\ UNCHANGED <<kern, regR, regW, reported>>

C16_OutcomeOfOwnSyscall ==
  /\ ReadDone => rres = Returned(rlast)
  /\ WriteDone => wres = Returned(wlast)

C16_CallStateMachine ==
  /\ [][C16_Edges]_vars
  /\ []C16_OutcomeOfOwnSyscall
  /\ [](Reads /\ pcR \in {"idle", "done"} => ENABLED ReadStart)
  /\ [](Writes /\ pcW \in {"idle", "done"} => ENABLED WriteStart)

\* An earlier read call failed with the error pending on the descriptor;
\* the read call after it met a would-block, waited, and returned data.
C16_Witness ==
  /\ side = "read" /\ upsets > 0 /\ fdErr = NoErr /\ ~rtDown
  /\ ReadDone /\ rWB > 0 /\ rres.kind = "ok" /\ rlast.ret >= 1

\* The last raw syscall of the call gave an answer other than would-block.
ReadAnswered == rlast # NoSys /\ ~ReadWouldBlock
WriteAnswered == wlast # NoSys /\ ~WriteWouldBlock

\* C17 as stated: every completed call holds a raw syscall whose result is
\* not would-block.
C17_OneAnswerAsStated ==
  /\ ReadDone => ReadAnswered
  /\ WriteDone => WriteAnswered

\* C17, amended: a completed call that was not ended by an error of the
\* readiness wait made exactly one raw syscall whose result is not
\* would-block, after one pass of the loop for each would-block and as its
\* last syscall; a call ended by the readiness wait's error made none.
\* A syscall that answers would-block transfers nothing and is counted; any
\* other answer ends the call in the same step; bytes move only in that
\* step; and a completed call, a short read or write included, makes no
\* further syscall.
C17_AnswerEndsCall ==
  /\ ReadDone =>
       IF rres = ErrRes(GONE) THEN ~ReadAnswered /\ rIter = rWB + 1
       ELSE ReadAnswered /\ rIter = rWB + 1 /\ rres = Returned(rlast)
  /\ WriteDone =>
       IF wres = ErrRes(GONE) THEN ~WriteAnswered /\ wIter = wWB + 1
       ELSE WriteAnswered /\ wIter = wWB + 1 /\ wres = Returned(wlast)
  /\ ~ReadDone => ~ReadAnswered
  /\ ~WriteDone => ~WriteAnswered

C17_SyscallSteps ==
  /\ pcR = "attempt" /\ pcR' # pcR =>
       \/ /\ pcR' = "clear" /\ rlast' = [ret |-> -1, errno |-> EAGAIN]
          /\ rWB' = rWB + 1 /\ consumed' = consumed
       \/ /\ pcR' = "done" /\ rlast' # NoSys /\ rlast'.errno # EAGAIN
          /\ rWB' = rWB
  /\ pcW = "attempt" /\ pcW' # pcW =>
       \/ /\ pcW' = "clear" /\ wlast' = [ret |-> -1, errno |-> EAGAIN]
          /\ wWB' = wWB + 1 /\ accepted' = accepted
       \/ /\ pcW' = "done" /\ wlast' # NoSys /\ wlast'.errno # EAGAIN
          /\ wWB' = wWB
  /\ consumed' # consumed => pcR = "attempt" /\ pcR' = "done"
  /\ accepted' # accepted => pcW = "attempt" /\ pcW' = "done"
  /\ rlast' # rlast => pcR = "attempt" \/ rlast' = NoSys
  /\ wlast' # wlast => pcW = "attempt" \/ wlast' = NoSys

C17_OneAnswerPerCall == []C17_AnswerEndsCall /\ [][C17_SyscallSteps]_vars

\* A read call that met a would-block has completed with a short read: it
\* took fewer bytes than its buffer had room for and fewer than the
\* descriptor held, and the rest is still in the kernel.
C17_Witness ==
  /\ ReadDone /\ rWB > 0 /\ rIter = rWB + 1
  /\ rres.kind = "ok" /\ rres.n >= 1 /\ rres.n < ReadCap
  /\ written > consumed

\* No step of the adapter: a task keeps its place, or is woken from its
\* suspension, and no flush or shutdown is made.
NoAdapterStep ==
  /\ pcR' = pcR \/ (pcR = "pending" /\ pcR' = "wait")
  /\ pcW' = pcW \/ (pcW = "pending" /\ pcW' = "wait")
  /\ ctl' = ctl

\* C18: the adapter clears a direction's readiness exactly after a raw
\* syscall of that direction answered would-block. The clearing step is
\* taken if and only if the syscall answered would-block; the flag falls in
\* no other step; a call completed by a success (short, or a 0-byte read)
\* or by an OS error leaves the flag set, so the wait of the next call in
\* that direction hands out a guard at once and does not suspend; the flag
\* rises only in steps of the reactor.
C18_ClearOnlyAfterWouldBlock ==
  /\ pcR = "clear" => ReadWouldBlock /\ rdReady
  /\ pcW = "clear" => WriteWouldBlock /\ wrReady
  /\ ReadDone /\ ReadAnswered => rdReady
  /\ WriteDone /\ WriteAnswered => wrReady

C18_FlagSteps ==
  /\ pcR = "attempt" /\ pcR' # pcR =>
       /\ (pcR' = "clear") = (rlast'.ret < 0 /\ rlast'.errno = EAGAIN)
       /\ rdReady' = rdReady
  /\ pcW = "attempt" /\ pcW' # pcW =>
       /\ (pcW' = "clear") = (wlast'.ret < 0 /\ wlast'.errno = EAGAIN)
       /\ wrReady' = wrReady
  /\ pcR = "clear" /\ pcR' # pcR =>
       pcR' = "wait" /\ rdReady' = ClearReady(rdReady, rdFresh)
  /\ pcW = "clear" /\ pcW' # pcW =>
       pcW' = "wait" /\ wrReady' = ClearReady(wrReady, wrFresh)
  /\ rdReady /\ ~rdReady' => pcR = "clear" /\ ReadWouldBlock
  /\ wrReady /\ ~wrReady' => pcW = "clear" /\ WriteWouldBlock
  /\ ~rdReady /\ rdReady' => NoAdapterStep
  /\ ~wrReady /\ wrReady' => NoAdapterStep
  /\ ReadDone /\ ReadAnswered /\ pcR' # pcR => pcR' = "wait" /\ rdReady'
  /\ WriteDone /\ WriteAnswered /\ pcW' # pcW => pcW' = "wait" /\ wrReady'
  /\ pcR = "wait" /\ rdReady /\ ~rtDown /\ pcR' # pcR => pcR' = "attempt"
  /\ pcW = "wait" /\ wrReady /\ ~rtDown /\ pcW' # pcW => pcW' = "attempt"

C18_ReadinessClearedOnWouldBlock ==
  []C18_ClearOnlyAfterWouldBlock /\ [][C18_FlagSteps]_vars

\* A read call cleared the flag after a would-block, was woken by the
\* reactor and ended with a 0-byte read at end-of-stream: the flag is set.
C18_Witness ==
  /\ ReadDone /\ rWB > 0 /\ rres = OkRes(0) /\ rlast.ret = 0
  /\ peerClosed /\ rbufCap > Len(rbufFilled) /\ rdReady

\* C19: a read syscall that answers would-block or an error leaves the
\* caller's buffer as it was, filled length and contents; the filled part
\* changes only in the step of a successful syscall, which appends exactly
\* the returned count of bytes after the bytes already there; the filled
\* length never exceeds the capacity. (The only other change is the caller
\* handing in the buffer of a new call.)
C19_BufferWithinCapacity ==
  /\ Len(rbufFilled) <= rbufCap
  /\ pcR \in {"wait", "pending", "attempt", "clear"} => rbufFilled = Prefill
  /\ ReadDone /\ (rres.kind = "err" \/ rlast.ret < 0) => rbufFilled = Prefill
  /\ ReadDone /\ ReadAnswered /\ rlast.ret >= 0 =>
       Len(rbufFilled) = PreFilled + rlast.ret

C19_BufferSteps ==
  /\ pcR = "attempt" /\ pcR' # pcR /\ rlast'.ret < 0 =>
       rbufFilled' = rbufFilled /\ rbufCap' = rbufCap
  /\ pcR = "attempt" /\ pcR' # pcR /\ rlast'.ret >= 0 =>
       /\ Len(rbufFilled') = Len(rbufFilled) + rlast'.ret
       /\ SubSeq(rbufFilled', 1, Len(rbufFilled)) = rbufFilled
       /\ rbufCap' = rbufCap
  /\ rbufFilled' # rbufFilled =>
       \/ pcR \in {"idle", "done"} /\ pcR' = "wait"
       \/ pcR = "attempt" /\ pcR' = "done" /\ rlast'.ret > 0
  /\ rbufCap' # rbufCap => pcR \in {"idle", "done"} /\ pcR' = "wait"

C19_ReadBufferFrame == []C19_BufferWithinCapacity /\ [][C19_BufferSteps]_vars

\* A read call met a would-block, then an OS error: both attempts left the
\* buffer as the caller handed it in, with room to spare.
C19_Witness ==
  /\ ReadDone /\ rWB > 0 /\ rres.kind = "err" /\ rres.errno \in Errnos
  /\ rbufFilled = Prefill /\ rbufCap > PreFilled

\* The status flags other than O_NONBLOCK, with the access mode.
OtherFlags(f) == f - O_NONBLOCK * ((f \div O_NONBLOCK) % 2)
HasNonblock(f) == (f \div O_NONBLOCK) % 2 = 1

\* C20: a set_nonblocking call that succeeds leaves the descriptor with
\* O_NONBLOCK set and every other flag as before the call; on flags that
\* have O_NONBLOCK already, and so on a second call after a successful one,
\* it changes nothing; when F_GETFL fails the call returns that error and
\* F_SETFL is not called; when F_SETFL fails the call returns that error;
\* a failed call leaves the flags as they were.
C20_LastCall ==
  snb.n > 0 =>
    /\ snb.res.kind \in {"ok", "err"}
    /\ snb.res.kind = "ok" =>
         /\ HasNonblock(oflags)
         /\ OtherFlags(oflags) = OtherFlags(snb.before)
         /\ HasNonblock(snb.before) => oflags = snb.before
         /\ snb.arg >= 0
    /\ snb.res.kind = "err" =>
         /\ oflags = snb.before
         /\ snb.res.errno \in {EBADF, EPERM}
         /\ snb.res.errno = EBADF => snb.arg = -1
         /\ snb.res.errno = EPERM => snb.arg >= 0

C20_CallSteps ==
  /\ snb' # snb => snb'.n = snb.n + 1 /\ snb'.before = oflags
  /\ oflags' # oflags => snb'.n = snb.n + 1 /\ snb'.res.kind = "ok"
  /\ snb.n > 0 /\ snb.res.kind = "ok" /\ snb'.n = snb.n + 1
       /\ snb'.res.kind = "ok" => oflags' = oflags

C20_SetsOnlyNonblock == []C20_LastCall /\ [][C20_CallSteps]_vars

\* A second successful call on a descriptor opened for appending that the
\* first call made non-blocking: the flags are those the first call left.
C20_Witness ==
  /\ snb.n = 2 /\ snb.res.kind = "ok"
  /\ HasNonblock(snb.before) /\ OtherFlags(snb.before) = O_WRONLY + O_APPEND
  /\ oflags = snb.before

====
